---- MODULE Spec2Model ----
(***************************************************************************)
(* The MathBlast lobby: the server of src/mathblast_server.py (one thread  *)
(* per accepted connection, one roster `clients` guarded by the            *)
(* non-reentrant `clients_lock`) and its peers.                            *)
(*                                                                         *)
(* A protocol line is a sequence of tokens; the colon, the comma and the   *)
(* semicolon are tokens of their own, so that startswith, split and the    *)
(* snapshot's join are computed, not assumed.                              *)
(***************************************************************************)
EXTENDS Integers, Sequences, FiniteSets, TLC

VARIABLES
    clients,     \* the roster: the dict `clients`, as its entries in insertion order
    lock,        \* clients_lock: 0 when free, else the thread that holds it
    pc,          \* where each connection handler stands in handle_client
    cur,         \* the decoded line a handler is processing
    snap,        \* the value _serialize_players() returned to a handler
    popped,      \* the name of the entry a handler's finally block popped
    accpc,       \* where the accept loop stands
    nconn,       \* connections accept() has returned so far
    inbox,       \* lines a peer has sent that its handler has not read yet
    outbox,      \* what each peer's socket has received, in order
    peerClosed,  \* the peer has closed its end of the connection
    srvClosed,   \* the server has closed its socket object for the connection
    sent,        \* the lines each peer has written so far, in order
    status,      \* client: the lobby's status label (idle, connected, offline)
    netsock,     \* client: whether self.net_sock holds a socket object
    lpc,         \* client: where the background listener thread stands
    rpos,        \* client: how many received lines the listener has read
    uiq,         \* client: the events posted with root.after(0, ...), in order
    chat,        \* client: the chat transcript, one <<sender, message>> per line
    tree,        \* client: the rows of players_tree, <<name, status, level>>
    ready,       \* client: self.player_ready
    applied,     \* client: the received lines the UI thread has handled, in order
    codec,       \* one line on its way through the encoder and the decoders
    conpc        \* where the console loop of main() stands

serverVars == <<clients, lock, pc, cur, snap, popped, accpc, nconn>>
netVars == <<inbox, outbox, peerClosed, srvClosed, sent>>
agentVars == <<status, netsock, lpc, rpos, uiq, chat, tree, ready, applied>>
vars == <<serverVars, netVars, agentVars, codec, conpc>>

----------------------------------------------------------------------------
(* Bounds of the model. *)
MaxConns == 2
MaxLines == 2
MaxCloses == 1

Conns == 1..MaxConns

----------------------------------------------------------------------------
(* Text. *)
Colon == ":"
NoneName == <<"None">>      \* Python's None in the 'name' field
BadByte == "\\xff"          \* a byte sequence that is not UTF-8

Range(s) == {s[i] : i \in 1..Len(s)}

StartsWith(line, prefix) ==
    /\ Len(line) >= Len(prefix)
    /\ SubSeq(line, 1, Len(prefix)) = prefix

\* The index of the first sep in s at or after i; 0 when there is none.
RECURSIVE Find(_, _, _)
Find(s, sep, i) ==
    IF i > Len(s) THEN 0
    ELSE IF s[i] = sep THEN i
    ELSE Find(s, sep, i + 1)

\* str.split(sep, maxsplit): at most maxsplit cuts, from the left.
RECURSIVE Split(_, _, _)
Split(s, sep, maxsplit) ==
    LET k == Find(s, sep, 1) IN
    IF maxsplit = 0 \/ k = 0 THEN <<s>>
    ELSE <<SubSeq(s, 1, k - 1)>> \o Split(SubSeq(s, k + 1, Len(s)), sep, maxsplit - 1)

\* sep.join(parts)
RECURSIVE Join(_, _)
Join(parts, sep) ==
    IF parts = <<>> THEN <<>>
    ELSE IF Len(parts) = 1 THEN parts[1]
    ELSE parts[1] \o <<sep>> \o Join(Tail(parts), sep)

\* The integers int() and str() are modelled on.
IntRange == -1..3
NoInt == 99    \* int() raised ValueError

\* str(n)
Str(n) == <<ToString(n)>>

\* int(s): the number a one-token decimal literal denotes, else ValueError.
IntOf(s) ==
    IF Len(s) = 1 /\ \E n \in IntRange : ToString(n) = s[1]
    THEN CHOOSE n \in IntRange : ToString(n) = s[1]
    ELSE NoInt

\* bytes.decode('utf-8') succeeds
Decodable(line) == BadByte \notin Range(line)

\* Python truthiness of a 'name' value: None and '' are false.
Truthy(name) == name # NoneName /\ name # <<>>

JOINp == <<"JOIN", Colon>>
CHATp == <<"CHAT", Colon>>
READYp == <<"READY", Colon>>
LEVELp == <<"LEVEL", Colon>>
LISTp == <<"LIST", Colon>>
LEAVEp == <<"LEAVE", Colon>>
LISTq == <<"LIST?">>
STARTq == <<"START?">>
STARTl == <<"START", Colon>>

----------------------------------------------------------------------------
(* The roster. *)

\* clients.get(sock): the index of sock's entry, 0 for None
IndexOf(cl, sock) ==
    IF \E i \in 1..Len(cl) : cl[i].sock = sock
    THEN CHOOSE i \in 1..Len(cl) : cl[i].sock = sock
    ELSE 0

Has(cl, sock) == IndexOf(cl, sock) # 0

RECURSIVE Without(_, _)
\* the roster with the entries of the sockets in S popped
Without(cl, S) ==
    IF cl = <<>> THEN <<>>
    ELSE IF Head(cl).sock \in S THEN Without(Tail(cl), S)
    ELSE <<Head(cl)>> \o Without(Tail(cl), S)

\* clients[sock] = {'sock': sock, 'addr': addr, 'name': None, 'level':1, 'ready':0}
NewEntry(sock) == [sock |-> sock, name |-> NoneName, level |-> 1, ready |-> 0]

\* The field set in every entry of the roster instead of the socket's own.
SetFieldEverywhere(cl, sock, field, value) ==
    [i \in 1..Len(cl) |-> [cl[i] EXCEPT ![field] = value]]

\* info[field] = value, if info is not None
SetField(cl, sock, field, value) ==
    LET i == IndexOf(cl, sock) IN
    IF i = 0 THEN cl ELSE [cl EXCEPT ![i] = [@ EXCEPT ![field] = value]]

\* EntryText with the ready flag written before the level.
EntryTextReadyFirst(info) ==
    (IF Truthy(info.name) THEN info.name ELSE <<>>)
        \o <<",">> \o Str(info.ready) \o <<",">> \o Str(info.level)

\* One entry of the snapshot: f"{n},{lvl},{rd}"
EntryText(info) ==
    (IF Truthy(info.name) THEN info.name ELSE <<>>)
        \o <<",">> \o Str(info.level) \o <<",">> \o Str(info.ready)

\* _serialize_players(): every entry of clients, joined with ';'
SerializePlayers(cl) == Join([i \in 1..Len(cl) |-> EntryText(cl[i])], ";")

\* named = [c for c in clients.values() if c.get('name')]
Named(cl) == {i \in 1..Len(cl) : Truthy(cl[i].name)}

\* named and all(c.get('ready',0) for c in named)
BarrierHolds(cl) == Named(cl) # {} /\ \A i \in Named(cl) : cl[i].ready # 0

----------------------------------------------------------------------------
(* The peers: what a connected peer may write on its socket. *)

PlayerName(c) == <<(<<"Alice", "Bob", "Carol", "Dave">>)[c]>>

JoinLine(c) == JOINp \o PlayerName(c)
ChatLine(c, text) == CHATp \o PlayerName(c) \o <<Colon>> \o text
ReadyLine(c, v) == READYp \o PlayerName(c) \o <<Colon>> \o v
LevelLine(c, v) == LEVELp \o PlayerName(c) \o <<Colon>> \o v
FooLine == <<"FOO", Colon, "bar">>

Lines(c) ==
    { JoinLine(c), ChatLine(c, <<"hi">>), ReadyLine(c, <<"1">>), ReadyLine(c, <<"0">>),
      LevelLine(c, <<"2">>), LISTq, STARTq, FooLine }

RECURSIVE SumLen(_, _)
SumLen(f, n) == IF n = 0 THEN 0 ELSE Len(f[n]) + SumLen(f, n - 1)

\* Lines written by all peers so far.
TotalSent == SumLen(sent, MaxConns)

\* The connection exists: accept() has returned it.
Established(c) == c <= nconn

----------------------------------------------------------------------------
(* Sockets. *)

\* What s.sendall(data) can do on connection c: TRUE it returns, FALSE it raises.
\* On a socket object the server has closed it raises; once the peer has closed
\* its end it may still return (the bytes are dropped) or raise.
SendOutcomes(c) ==
    IF srvClosed[c] THEN {FALSE}
    ELSE IF peerClosed[c] THEN {TRUE, FALSE}
    ELSE {TRUE}

\* The sockets of S on which a send raises for sure, and on which it can raise.
MustFail(S) == {c \in S : FALSE \in SendOutcomes(c) /\ TRUE \notin SendOutcomes(c)}
MayFail(S) == {c \in S : FALSE \in SendOutcomes(c)}

\* Delivered with the sender skipped, as with exclude_sock=sock.
DeliveredExceptSender(ob, ok, line, h, seq) ==
    [c \in Conns |->
        IF c \in ok /\ c # h /\ ~peerClosed[c]
        THEN Append(ob[c], [line |-> line, src |-> h, seq |-> seq])
        ELSE ob[c]]

\* outbox after `line` has been written to the sockets of `ok` by handler h while
\* it processes the line numbered seq of its connection.
Delivered(ob, ok, line, h, seq) ==
    [c \in Conns |->
        IF c \in ok /\ ~peerClosed[c]
        THEN Append(ob[c], [line |-> line, src |-> h, seq |-> seq])
        ELSE ob[c]]

----------------------------------------------------------------------------
(* handle_client: the program points of one handler thread. *)

\* Dispatch with the final else dropping the line instead of broadcasting it.
DispatchDropUnknown(line) ==
    IF StartsWith(line, JOINp) THEN "join_bind"
    ELSE IF StartsWith(line, CHATp) THEN "chat_bc"
    ELSE IF StartsWith(line, READYp)
        THEN (IF Len(Split(line, Colon, 2)) >= 3 THEN "ready_set" ELSE "recv")
    ELSE IF line = LISTq THEN "list_ser"
    ELSE IF StartsWith(line, LEVELp)
        THEN (IF Len(Split(line, Colon, 2)) >= 3 THEN "level_set" ELSE "recv")
    ELSE IF line = STARTq THEN "startq"
    ELSE "recv"

\* The branch of the if/elif chain a decoded line takes.
Dispatch(line) ==
    IF StartsWith(line, JOINp) THEN "join_bind"
    ELSE IF StartsWith(line, CHATp) THEN "chat_bc"
    ELSE IF StartsWith(line, READYp)
        THEN (IF Len(Split(line, Colon, 2)) >= 3 THEN "ready_set" ELSE "recv")
    ELSE IF line = LISTq THEN "list_ser"
    ELSE IF StartsWith(line, LEVELp)
        THEN (IF Len(Split(line, Colon, 2)) >= 3 THEN "level_set" ELSE "recv")
    ELSE IF line = STARTq THEN "startq"
    ELSE "other_bc"

\* The program points at which the handler calls broadcast(), the line it passes
\* and where it goes when broadcast() returns.
BcastPcs == {"join_bc", "join_list", "chat_bc", "ready_bc", "ready_list",
             "ready_start", "level_list", "other_bc", "fin_leave", "fin_list"}

BcastLine(h) ==
    CASE pc[h] = "join_bc" -> JOINp \o Split(cur[h].line, Colon, 1)[2]
      [] pc[h] \in {"join_list", "ready_list", "level_list", "fin_list"} -> LISTp \o snap[h]
      [] pc[h] \in {"chat_bc", "ready_bc", "other_bc"} -> cur[h].line
      [] pc[h] = "ready_start" -> STARTl
      [] pc[h] = "fin_leave" -> LEAVEp \o popped[h]

AfterBcast(p) ==
    CASE p = "join_bc" -> "join_ser"
      [] p = "ready_bc" -> "ready_ser"
      [] p = "ready_list" -> "ready_chk"
      [] p = "fin_leave" -> "fin_ser"
      [] p = "fin_list" -> "done"
      [] OTHER -> "recv"

\* The program points at which the handler calls _serialize_players().
SerPcs == {"join_ser", "ready_ser", "list_ser", "level_ser", "fin_ser"}

AfterSer(p) ==
    CASE p = "join_ser" -> "join_list"
      [] p = "ready_ser" -> "ready_list"
      [] p = "list_ser" -> "list_reply"
      [] p = "level_ser" -> "level_list"
      [] p = "fin_ser" -> "fin_list"

\* The program points a handler reaches inside one of its own
\* `with clients_lock:` blocks, that is, holding the lock.
HeldPcs == {"ready_start", "fin_leave", "fin_ser", "fin_list"}

\* The last complete line of the receive buffer, as with buf.rsplit(b'\n', 1).
NextLineLast(buf) == buf[Len(buf)]

\* The next line of the receive buffer: line, buf = buf.split(b'\n', 1)
NextLine(buf) == Head(buf)
RestOf(buf) == Tail(buf)

----------------------------------------------------------------------------
\* No line is in the codec.
NoCodec == [at |-> "none"]

Init ==
    /\ clients = <<>>
    /\ lock = 0
    /\ pc = [c \in Conns |-> "none"]
    /\ cur = [c \in Conns |-> [line |-> <<>>, seq |-> 0]]
    /\ snap = [c \in Conns |-> <<>>]
    /\ popped = [c \in Conns |-> NoneName]
    /\ accpc = "accept"
    /\ nconn = 0
    /\ inbox = [c \in Conns |-> <<>>]
    /\ outbox = [c \in Conns |-> <<>>]
    /\ peerClosed = [c \in Conns |-> FALSE]
    /\ srvClosed = [c \in Conns |-> FALSE]
    /\ sent = [c \in Conns |-> <<>>]
    /\ status = [c \in Conns |-> "idle"]
    /\ netsock = [c \in Conns |-> FALSE]
    /\ lpc = [c \in Conns |-> "none"]
    /\ rpos = [c \in Conns |-> 0]
    /\ uiq = [c \in Conns |-> <<>>]
    /\ chat = [c \in Conns |-> <<>>]
    /\ tree = [c \in Conns |-> <<>>]
    /\ ready = [c \in Conns |-> FALSE]
    /\ applied = [c \in Conns |-> <<>>]
    /\ codec = NoCodec
    /\ conpc = "input"

\* The state when main() starts: nothing is bound yet.
InitBoot ==
    /\ clients = <<>>
    /\ lock = 0
    /\ pc = [c \in Conns |-> "none"]
    /\ cur = [c \in Conns |-> [line |-> <<>>, seq |-> 0]]
    /\ snap = [c \in Conns |-> <<>>]
    /\ popped = [c \in Conns |-> NoneName]
    /\ accpc = "boot"
    /\ nconn = 0
    /\ inbox = [c \in Conns |-> <<>>]
    /\ outbox = [c \in Conns |-> <<>>]
    /\ peerClosed = [c \in Conns |-> FALSE]
    /\ srvClosed = [c \in Conns |-> FALSE]
    /\ sent = [c \in Conns |-> <<>>]
    /\ status = [c \in Conns |-> "idle"]
    /\ netsock = [c \in Conns |-> FALSE]
    /\ lpc = [c \in Conns |-> "none"]
    /\ rpos = [c \in Conns |-> 0]
    /\ uiq = [c \in Conns |-> <<>>]
    /\ chat = [c \in Conns |-> <<>>]
    /\ tree = [c \in Conns |-> <<>>]
    /\ ready = [c \in Conns |-> FALSE]
    /\ applied = [c \in Conns |-> <<>>]
    /\ codec = NoCodec
    /\ conpc = "input"

\* main: server_sock.bind((HOST, PORT)).  When the port is in use bind raises
\* OSError, which nothing catches: the process ends.  Otherwise the socket
\* listens and the accept loop is started.
Bind ==
    /\ accpc = "boot"
    /\ \E inUse \in BOOLEAN : accpc' = IF inUse THEN "failed" ELSE "accept"
    /\ UNCHANGED <<clients, lock, pc, cur, snap, popped, nconn>>
    /\ UNCHANGED <<netVars, agentVars, codec, conpc>>

\* accept_loop: server_sock.accept() returns a new connection.
Accept ==
    /\ accpc = "accept"
    /\ nconn < MaxConns
    /\ nconn' = nconn + 1
    /\ accpc' = "register"
    /\ UNCHANGED <<agentVars, codec, conpc>>
    /\ UNCHANGED <<clients, lock, pc, cur, snap, popped, netVars>>

\* accept_loop inserting the entry without taking clients_lock.
RegisterNoLock ==
    /\ accpc = "register"
    /\ clients' = Append(clients, NewEntry(nconn))
    /\ pc' = [pc EXCEPT ![nconn] = "recv"]
    /\ accpc' = "accept"
    /\ UNCHANGED <<agentVars, codec, conpc>>
    /\ UNCHANGED <<lock, cur, snap, popped, nconn, netVars>>

\* accept_loop: with clients_lock: clients[sock] = {...}; then the handler
\* thread of the connection is started.
Register ==
    /\ accpc = "register"
    /\ lock = 0
    /\ clients' = Append(clients, NewEntry(nconn))
    /\ pc' = [pc EXCEPT ![nconn] = "recv"]
    /\ accpc' = "accept"
    /\ UNCHANGED <<agentVars, codec, conpc>>
    /\ UNCHANGED <<lock, cur, snap, popped, nconn, netVars>>

\* A peer writes one of its lines.
PeerSend(c) ==
    /\ Established(c)
    /\ ~peerClosed[c]
    /\ TotalSent < MaxLines
    /\ \E line \in Lines(c) :
        /\ inbox' = [inbox EXCEPT ![c] = Append(@, [line |-> line, seq |-> Len(sent[c]) + 1])]
        /\ sent' = [sent EXCEPT ![c] = Append(@, line)]
    /\ UNCHANGED <<agentVars, codec, conpc>>
    /\ UNCHANGED <<serverVars, outbox, peerClosed, srvClosed>>

\* A peer closes its end.
PeerClose(c) ==
    /\ Established(c)
    /\ ~peerClosed[c]
    /\ Cardinality({d \in Conns : peerClosed[d]}) < MaxCloses
    /\ peerClosed' = [peerClosed EXCEPT ![c] = TRUE]
    /\ UNCHANGED <<agentVars, codec, conpc>>
    /\ UNCHANGED <<serverVars, inbox, outbox, srvClosed, sent>>

\* The read loop takes the next line: a line that does not decode is skipped,
\* any other is dispatched.
HRecv(h) ==
    /\ pc[h] = "recv"
    /\ inbox[h] # <<>>
    /\ LET m == NextLine(inbox[h]) IN
        /\ inbox' = [inbox EXCEPT ![h] = RestOf(@)]
        /\ IF Decodable(m.line)
           THEN /\ cur' = [cur EXCEPT ![h] = m]
                /\ pc' = [pc EXCEPT ![h] = Dispatch(m.line)]
           ELSE UNCHANGED <<cur, pc>>
    /\ UNCHANGED <<agentVars, codec, conpc>>
    /\ UNCHANGED <<clients, lock, snap, popped, accpc, nconn, outbox, peerClosed,
                   srvClosed, sent>>

\* recv returns b'' (the peer closed and everything was read) or raises (the
\* socket object was closed by a broadcast): the loop ends, `with sock` closes
\* the socket and the finally block is entered.
HEof(h) ==
    /\ pc[h] = "recv"
    /\ IF srvClosed[h] THEN TRUE ELSE peerClosed[h] /\ inbox[h] = <<>>
    /\ pc' = [pc EXCEPT ![h] = "fin_pop"]
    /\ srvClosed' = [srvClosed EXCEPT ![h] = TRUE]
    /\ UNCHANGED <<agentVars, codec, conpc>>
    /\ UNCHANGED <<clients, lock, cur, snap, popped, accpc, nconn, inbox, outbox,
                   peerClosed, sent>>

\* JOIN: name = line.split(':', 1)[1]; with clients_lock: info['name'] = name
HJoinBind(h) ==
    /\ pc[h] = "join_bind"
    /\ lock = 0
    /\ clients' = SetField(clients, h, "name", Split(cur[h].line, Colon, 1)[2])
    /\ pc' = [pc EXCEPT ![h] = "join_bc"]
    /\ UNCHANGED <<agentVars, codec, conpc>>
    /\ UNCHANGED <<lock, cur, snap, popped, accpc, nconn, netVars>>

\* The send loop leaving in the roster the entries whose send raised.
AfterSendLoopKeepAll(cl, failed) == cl

\* The roster and the sockets after a broadcast's send loop in which the sends
\* to `failed` raised: each of them is closed and popped.
AfterSendLoop(cl, failed) == Without(cl, failed)

\* broadcast(line) with the caller's own socket served out of turn: its line is
\* put before what the socket was sent earlier.
BroadcastOutOfTurn(h) ==
    /\ pc[h] \in BcastPcs
    /\ lock = 0
    /\ LET at == {clients[i].sock : i \in 1..Len(clients)} IN
       \E failed \in SUBSET MayFail(at) :
        /\ MustFail(at) \subseteq failed
        /\ outbox' = [c \in Conns |->
                        IF c = h /\ c \in at \ failed /\ ~peerClosed[c]
                        THEN <<[line |-> BcastLine(h), src |-> h, seq |-> cur[h].seq]>> \o outbox[c]
                        ELSE Delivered(outbox, at \ failed, BcastLine(h), h, cur[h].seq)[c]]
        /\ srvClosed' = [c \in Conns |-> srvClosed[c] \/ c \in failed]
        /\ clients' = AfterSendLoop(clients, failed)
    /\ pc' = [pc EXCEPT ![h] = AfterBcast(pc[h])]
    /\ UNCHANGED <<agentVars, codec, conpc>>
    /\ UNCHANGED <<lock, cur, snap, popped, accpc, nconn, inbox, peerClosed, sent>>

\* broadcast(line): under the lock, sendall to every entry of a copy of the
\* roster; an entry whose send raises is closed and popped.
Broadcast(h) ==
    /\ pc[h] \in BcastPcs
    /\ lock = 0
    /\ LET at == {clients[i].sock : i \in 1..Len(clients)} IN
       \E failed \in SUBSET MayFail(at) :
        /\ MustFail(at) \subseteq failed
        /\ outbox' = Delivered(outbox, at \ failed, BcastLine(h), h, cur[h].seq)
        /\ srvClosed' = [c \in Conns |-> srvClosed[c] \/ c \in failed]
        /\ clients' = AfterSendLoop(clients, failed)
    /\ pc' = [pc EXCEPT ![h] = AfterBcast(pc[h])]
    /\ UNCHANGED <<agentVars, codec, conpc>>
    /\ UNCHANGED <<lock, cur, snap, popped, accpc, nconn, inbox, peerClosed, sent>>

\* _serialize_players(): under the lock, the snapshot of the roster.
Serialize(h) ==
    /\ pc[h] \in SerPcs
    /\ lock = 0
    /\ snap' = [snap EXCEPT ![h] = SerializePlayers(clients)]
    /\ pc' = [pc EXCEPT ![h] = AfterSer(pc[h])]
    /\ UNCHANGED <<agentVars, codec, conpc>>
    /\ UNCHANGED <<clients, lock, cur, popped, accpc, nconn, netVars>>

\* READY: with clients_lock: info['ready'] = int(rv). A ValueError leaves the
\* read loop: the socket is closed and the finally block is entered.
HReadySet(h) ==
    /\ pc[h] = "ready_set"
    /\ lock = 0
    /\ LET rv == IntOf(Split(cur[h].line, Colon, 2)[3]) IN
       IF Has(clients, h) /\ rv = NoInt
       THEN /\ pc' = [pc EXCEPT ![h] = "fin_pop"]
            /\ srvClosed' = [srvClosed EXCEPT ![h] = TRUE]
            /\ UNCHANGED clients
       ELSE /\ clients' = SetField(clients, h, "ready", rv)
            /\ pc' = [pc EXCEPT ![h] = "ready_bc"]
            /\ UNCHANGED srvClosed
    /\ UNCHANGED <<agentVars, codec, conpc>>
    /\ UNCHANGED <<lock, cur, snap, popped, accpc, nconn, inbox, outbox,
                   peerClosed, sent>>

\* READY, after the two broadcasts: with clients_lock: if named and all ready,
\* broadcast('START:') is called with the lock still held.
HReadyCheck(h) ==
    /\ pc[h] = "ready_chk"
    /\ lock = 0
    /\ IF BarrierHolds(clients)
       THEN /\ lock' = h
            /\ pc' = [pc EXCEPT ![h] = "ready_start"]
       ELSE /\ pc' = [pc EXCEPT ![h] = "recv"]
            /\ UNCHANGED lock
    /\ UNCHANGED <<agentVars, codec, conpc>>
    /\ UNCHANGED <<clients, cur, snap, popped, accpc, nconn, netVars>>

\* A reply written to every socket of the roster instead of the handler's own.
ReplyToAll(h, line) ==
    \E ok \in SendOutcomes(h) :
        IF ok
        THEN /\ outbox' = Delivered(outbox, {clients[i].sock : i \in 1..Len(clients)}, line, h, cur[h].seq)
             /\ pc' = [pc EXCEPT ![h] = "recv"]
             /\ UNCHANGED srvClosed
        ELSE /\ pc' = [pc EXCEPT ![h] = "fin_pop"]
             /\ srvClosed' = [srvClosed EXCEPT ![h] = TRUE]
             /\ UNCHANGED outbox

\* A reply on the handler's own socket: sock.sendall(line). A send that raises
\* leaves the read loop.
Reply(h, line) ==
    \E ok \in SendOutcomes(h) :
        IF ok
        THEN /\ outbox' = Delivered(outbox, {h}, line, h, cur[h].seq)
             /\ pc' = [pc EXCEPT ![h] = "recv"]
             /\ UNCHANGED srvClosed
        ELSE /\ pc' = [pc EXCEPT ![h] = "fin_pop"]
             /\ srvClosed' = [srvClosed EXCEPT ![h] = TRUE]
             /\ UNCHANGED outbox

\* LIST?: sock.sendall("LIST:" + snapshot), outside the lock.
HListReply(h) ==
    /\ pc[h] = "list_reply"
    /\ Reply(h, LISTp \o snap[h])
    /\ UNCHANGED <<agentVars, codec, conpc>>
    /\ UNCHANGED <<clients, lock, cur, snap, popped, accpc, nconn, inbox,
                   peerClosed, sent>>

\* LEVEL: with clients_lock: info['level'] = int(lv), or 1 when int() raises.
HLevelSet(h) ==
    /\ pc[h] = "level_set"
    /\ lock = 0
    /\ LET lv == IntOf(Split(cur[h].line, Colon, 2)[3]) IN
       clients' = SetField(clients, h, "level", IF lv = NoInt THEN 1 ELSE lv)
    /\ pc' = [pc EXCEPT ![h] = "level_ser"]
    /\ UNCHANGED <<agentVars, codec, conpc>>
    /\ UNCHANGED <<lock, cur, snap, popped, accpc, nconn, netVars>>

\* START?: with clients_lock: if named and all ready, sock.sendall(b'START:\n').
HStartQ(h) ==
    /\ pc[h] = "startq"
    /\ lock = 0
    /\ IF BarrierHolds(clients)
       THEN Reply(h, STARTl)
       ELSE /\ pc' = [pc EXCEPT ![h] = "recv"]
            /\ UNCHANGED <<outbox, srvClosed>>
    /\ UNCHANGED <<agentVars, codec, conpc>>
    /\ UNCHANGED <<clients, lock, cur, snap, popped, accpc, nconn, inbox,
                   peerClosed, sent>>

\* finally: with clients_lock: info = clients.pop(sock, None); the broadcasts of
\* LEAVE and LIST that follow are called with the lock still held.
HFinallyPop(h) ==
    /\ pc[h] = "fin_pop"
    /\ lock = 0
    /\ lock' = h
    /\ clients' = Without(clients, {h})
    /\ LET i == IndexOf(clients, h) IN
       IF i # 0 /\ Truthy(clients[i].name)
       THEN /\ popped' = [popped EXCEPT ![h] = clients[i].name]
            /\ pc' = [pc EXCEPT ![h] = "fin_leave"]
       ELSE /\ pc' = [pc EXCEPT ![h] = "fin_ser"]
            /\ UNCHANGED popped
    /\ UNCHANGED <<agentVars, codec, conpc>>
    /\ UNCHANGED <<cur, snap, accpc, nconn, netVars>>

\* One step of the handler thread of connection h.
Handler(h) ==
    \/ HRecv(h)
    \/ HEof(h)
    \/ HJoinBind(h)
    \/ Broadcast(h)
    \/ Serialize(h)
    \/ HReadySet(h)
    \/ HReadyCheck(h)
    \/ HListReply(h)
    \/ HLevelSet(h)
    \/ HStartQ(h)
    \/ HFinallyPop(h)

Next ==
    \/ Accept
    \/ Register
    \/ \E c \in Conns : PeerSend(c)
    \/ \E c \in Conns : PeerClose(c)
    \/ \E h \in Conns : Handler(h)

Spec == Init /\ [][Next]_vars

----------------------------------------------------------------------------
(* The client: the lobby screen of MathBlast_Universal.py.  Client c is the
   peer of the connection the acceptor returned as c. *)

\* What the users do in the lobby after connecting: at most MaxActs chat
\* messages and presses of the Ready button between them.
MaxActs == 2

\* The chat messages and presses of the Ready button sent so far: every line
\* written but the JOIN each client that connected wrote first.
ActsDone == TotalSent - Cardinality({c \in Conns : sent[c] # <<>>})

\* The lines of the transcript of client c under its own name.
OwnChats(c) == Len(SelectSeq(chat[c], LAMBDA e : e[1] = PlayerName(c)))

\* The messages typed into chat_entry.
ChatTexts == {<<"hi">>}

\* add_chat_message: the transcript gains the line "sender: message".
AddChat(t, sender, message) == Append(t, <<sender, message>>)

\* The rows of players_tree left when those of `name` are deleted.
DeleteRows(rows, name) == SelectSeq(rows, LAMBDA r : r[1] # name)

\* The first row of `name` gets the status st; the loop breaks there.
SetStatus(rows, name, st) ==
    LET hits == {i \in 1..Len(rows) : rows[i][1] = name} IN
    IF hits = {} THEN rows
    ELSE LET i == CHOOSE k \in hits : \A m \in hits : k <= m IN
         [rows EXCEPT ![i] = <<rows[i][1], st, rows[i][3]>>]

\* _handle_network_line: the transcript after `line` is handled.
ChatAfter(t, line) ==
    IF StartsWith(line, CHATp)
    THEN (IF Len(Split(line, Colon, 2)) = 3
          THEN AddChat(t, Split(line, Colon, 2)[2], Split(line, Colon, 2)[3])
          ELSE t)
    ELSE IF StartsWith(line, JOINp)
    THEN AddChat(t, <<"System">>, Split(line, Colon, 1)[2] \o <<" joined the lobby">>)
    ELSE IF StartsWith(line, LEAVEp)
    THEN AddChat(t, <<"System">>, Split(line, Colon, 1)[2] \o <<" left the lobby">>)
    ELSE t

\* _handle_network_line: the rows of players_tree after `line` is handled.
TreeAfter(rows, line) ==
    IF StartsWith(line, CHATp) THEN rows
    ELSE IF StartsWith(line, JOINp)
    THEN Append(rows, <<Split(line, Colon, 1)[2], "Waiting", "1">>)
    ELSE IF StartsWith(line, LEAVEp)
    THEN DeleteRows(rows, Split(line, Colon, 1)[2])
    ELSE IF StartsWith(line, READYp)
    THEN (IF Len(Split(line, Colon, 2)) = 3
          THEN SetStatus(rows, Split(line, Colon, 2)[2],
                         IF Split(line, Colon, 2)[3] = <<"1">> THEN "Ready" ELSE "Waiting")
          ELSE rows)
    ELSE rows

\* What self.net_sock.sendall(data) can do in client c: on the socket object the
\* listener has closed it raises; once the server has closed its end it may
\* still return or raise.
ClientSendOutcomes(c) ==
    IF peerClosed[c] THEN {FALSE}
    ELSE IF srvClosed[c] THEN {TRUE, FALSE}
    ELSE {TRUE}

\* The client writes `line` on its socket.
Written(c, line) ==
    /\ inbox' = [inbox EXCEPT ![c] = Append(@, [line |-> line, seq |-> Len(sent[c]) + 1])]
    /\ sent' = [sent EXCEPT ![c] = Append(@, line)]

\* connect_to_lobby, the connection succeeds: JOIN:<name> is sent, the listener
\* thread is started and the status label says connected.
AgentConnect(c) ==
    /\ status[c] = "idle"
    /\ Established(c)
    /\ netsock' = [netsock EXCEPT ![c] = TRUE]
    /\ Written(c, JoinLine(c))
    /\ lpc' = [lpc EXCEPT ![c] = "run"]
    /\ status' = [status EXCEPT ![c] = "connected"]
    /\ UNCHANGED <<serverVars, outbox, peerClosed, srvClosed>>
    /\ UNCHANGED <<rpos, uiq, chat, tree, ready, applied, codec, conpc>>

\* _network_listener calling _handle_network_line itself instead of posting.
AgentListenDirect(c) ==
    /\ lpc[c] = "run"
    /\ ~peerClosed[c]
    /\ rpos[c] < Len(outbox[c])
    /\ rpos' = [rpos EXCEPT ![c] = @ + 1]
    /\ LET e == outbox[c][rpos[c] + 1] IN
       IF Decodable(e.line)
       THEN /\ chat' = [chat EXCEPT ![c] = ChatAfter(@, e.line)]
            /\ tree' = [tree EXCEPT ![c] = TreeAfter(@, e.line)]
            /\ applied' = [applied EXCEPT ![c] = Append(@, e)]
       ELSE UNCHANGED <<chat, tree, applied>>
    /\ UNCHANGED <<serverVars, netVars>>
    /\ UNCHANGED <<status, netsock, lpc, uiq, ready, codec, conpc>>

\* _network_listener: the next received line is decoded and posted to the UI
\* thread with root.after(0, self._handle_network_line, sline).
AgentListen(c) ==
    /\ lpc[c] = "run"
    /\ ~peerClosed[c]
    /\ rpos[c] < Len(outbox[c])
    /\ rpos' = [rpos EXCEPT ![c] = @ + 1]
    /\ LET e == outbox[c][rpos[c] + 1] IN
       uiq' = [uiq EXCEPT ![c] =
                  IF Decodable(e.line) THEN Append(@, [kind |-> "line", e |-> e]) ELSE @]
    /\ UNCHANGED <<serverVars, netVars>>
    /\ UNCHANGED <<status, netsock, lpc, chat, tree, ready, applied, codec, conpc>>

\* _network_listener: recv returns b'' or raises; finally: the socket is closed
\* and the 'Disconnected from lobby' message is posted to the UI thread.
AgentListenEnd(c) ==
    /\ lpc[c] = "run"
    /\ IF peerClosed[c] THEN TRUE ELSE srvClosed[c] /\ rpos[c] = Len(outbox[c])
    /\ lpc' = [lpc EXCEPT ![c] = "done"]
    /\ peerClosed' = [peerClosed EXCEPT ![c] = TRUE]
    /\ uiq' = [uiq EXCEPT ![c] = Append(@, [kind |-> "disc", e |-> [line |-> <<>>, src |-> 0, seq |-> 0]])]
    /\ UNCHANGED <<serverVars, inbox, outbox, srvClosed, sent>>
    /\ UNCHANGED <<status, netsock, rpos, chat, tree, ready, applied, codec, conpc>>

\* The UI thread runs the next posted callback: _handle_network_line(line), or
\* the lambda that adds the disconnect message.
AgentHandle(c) ==
    /\ uiq[c] # <<>>
    /\ uiq' = [uiq EXCEPT ![c] = Tail(@)]
    /\ LET ev == Head(uiq[c]) IN
       IF ev.kind = "line"
       THEN /\ chat' = [chat EXCEPT ![c] = ChatAfter(@, ev.e.line)]
            /\ tree' = [tree EXCEPT ![c] = TreeAfter(@, ev.e.line)]
            /\ applied' = [applied EXCEPT ![c] = Append(@, ev.e)]
       ELSE /\ chat' = [chat EXCEPT ![c] = AddChat(@, <<"System">>, <<"Disconnected from lobby">>)]
            /\ UNCHANGED <<tree, applied>>
    /\ UNCHANGED <<serverVars, netVars>>
    /\ UNCHANGED <<status, netsock, lpc, rpos, ready, codec, conpc>>

\* send_chat: with a socket the message is sent as CHAT:<name>:<msg>, and shown
\* locally only when the send raises; without a socket it is shown locally.
AgentSendChat(c) ==
    /\ status[c] \in {"connected", "offline"}
    /\ ActsDone < MaxActs
    /\ OwnChats(c) < MaxActs
    /\ \E msg \in ChatTexts :
        IF netsock[c]
        THEN \E ok \in ClientSendOutcomes(c) :
                IF ok
                THEN /\ Written(c, ChatLine(c, msg))
                     /\ UNCHANGED chat
                ELSE /\ chat' = [chat EXCEPT ![c] = AddChat(@, PlayerName(c), msg)]
                     /\ UNCHANGED <<inbox, sent>>
        ELSE /\ chat' = [chat EXCEPT ![c] = AddChat(@, PlayerName(c), msg)]
             /\ UNCHANGED <<inbox, sent>>
    /\ UNCHANGED <<serverVars, outbox, peerClosed, srvClosed>>
    /\ UNCHANGED <<status, netsock, lpc, rpos, uiq, tree, ready, applied, codec, conpc>>

\* toggle_ready sending the flag as it was before the press.
AgentToggleReadyStale(c) ==
    /\ status[c] \in {"connected", "offline"}
    /\ ActsDone < MaxActs
    /\ ready' = [ready EXCEPT ![c] = ~@]
    /\ IF netsock[c]
       THEN \E ok \in ClientSendOutcomes(c) :
               IF ok
               THEN Written(c, ReadyLine(c, IF ready[c] THEN <<"1">> ELSE <<"0">>))
               ELSE UNCHANGED <<inbox, sent>>
       ELSE UNCHANGED <<inbox, sent>>
    /\ UNCHANGED <<serverVars, outbox, peerClosed, srvClosed>>
    /\ UNCHANGED <<status, netsock, lpc, rpos, uiq, chat, tree, applied, codec, conpc>>

\* toggle_ready: player_ready flips; with a socket READY:<name>:<0|1> is sent,
\* and a send that raises is ignored.
AgentToggleReady(c) ==
    /\ status[c] \in {"connected", "offline"}
    /\ ActsDone < MaxActs
    /\ ready' = [ready EXCEPT ![c] = ~@]
    /\ IF netsock[c]
       THEN \E ok \in ClientSendOutcomes(c) :
               IF ok
               THEN Written(c, ReadyLine(c, IF ready[c] THEN <<"0">> ELSE <<"1">>))
               ELSE UNCHANGED <<inbox, sent>>
       ELSE UNCHANGED <<inbox, sent>>
    /\ UNCHANGED <<serverVars, outbox, peerClosed, srvClosed>>
    /\ UNCHANGED <<status, netsock, lpc, rpos, uiq, chat, tree, applied, codec, conpc>>

\* exit_lobby, confirmed: the lobby is hidden, the socket is closed and
\* self.net_sock becomes None.  No LEAVE line is sent.
AgentExit(c) ==
    /\ status[c] = "connected"
    /\ Cardinality({d \in Conns : status[d] = "left"}) < MaxCloses
    /\ status' = [status EXCEPT ![c] = "left"]
    /\ netsock' = [netsock EXCEPT ![c] = FALSE]
    /\ peerClosed' = [peerClosed EXCEPT ![c] = peerClosed[c] \/ netsock[c]]
    /\ UNCHANGED <<serverVars, inbox, outbox, srvClosed, sent>>
    /\ UNCHANGED <<lpc, rpos, uiq, chat, tree, ready, applied, codec, conpc>>

\* self.level of a new player.
LocalLevel == 1

\* test_players without the row of the local player.
SimulatedRosterNoLocal(c) ==
    << <<<<"InvaderAce">>, "Waiting", "4">>,
       <<<<"StarGazer">>, "Ready", "7">> >>

\* test_players: the local player and the two fixed placeholder rows.
SimulatedRoster(c) ==
    << <<PlayerName(c), "You", Str(LocalLevel)[1]>>,
       <<<<"InvaderAce">>, "Waiting", "4">>,
       <<<<"StarGazer">>, "Ready", "7">> >>

\* connect_to_lobby, the connection fails because nothing listens: the status
\* label says offline, the simulated players are inserted and the welcome
\* message is added.  self.net_sock stays None.
AgentConnectFail(c) ==
    /\ status[c] = "idle"
    /\ accpc \in {"failed", "down"}
    /\ ~Established(c)
    /\ status' = [status EXCEPT ![c] = "offline"]
    /\ tree' = [tree EXCEPT ![c] = @ \o SimulatedRoster(c)]
    /\ chat' = [chat EXCEPT ![c] =
                   AddChat(@, <<"System">>, <<"Welcome to Space Blast Lobby! (offline)">>)]
    /\ UNCHANGED <<serverVars, netVars>>
    /\ UNCHANGED <<netsock, lpc, rpos, uiq, ready, applied, codec, conpc>>

\* The client whose listener and UI thread are followed: the last to connect.
\* What the other clients receive stays unread in their sockets.
Observed == {MaxConns}

\* A step of the listener thread or of the UI thread of client c.
AgentThreads(c) == AgentListen(c) \/ AgentHandle(c)

\* What the user of client c does while the lobby is shown.
AgentUser(c) == AgentConnect(c) \/ AgentSendChat(c) \/ AgentToggleReady(c)

\* The handler of a connection whose peer is a client: the client writes only
\* JOIN, CHAT and READY lines, so these are the branches it can take while the
\* client stays connected.
LobbyHandler(h) ==
    \/ HRecv(h)
    \/ HJoinBind(h)
    \/ Broadcast(h)
    \/ Serialize(h)
    \/ HReadySet(h)
    \/ HReadyCheck(h)

NextLobby ==
    \/ Accept
    \/ Register
    \/ \E c \in Conns : AgentUser(c)
    \/ \E c \in Observed : AgentThreads(c)
    \/ \E h \in Conns : LobbyHandler(h)

\* The server with clients that stay in the lobby as its peers, where every
\* thread that can take a step eventually takes one: the acceptor once a
\* connection is pending, each handler thread, the followed client's listener
\* and UI thread.  What the users do is left free.
FairSpecLobby ==
    /\ Init
    /\ [][NextLobby]_vars
    /\ WF_vars(Register)
    /\ \A h \in Conns : WF_vars(LobbyHandler(h))
    /\ \A c \in Observed : WF_vars(AgentThreads(c))

NextSession ==
    \/ Bind
    \/ \E c \in Conns : AgentConnectFail(c)
    \/ NextLobby

\* The server from its start, with clients as its peers: the clients connect
\* when the server listens and go offline when it does not.
SpecSession == InitBoot /\ [][NextSession]_vars

\* The 'start' commands typed on the server console, as a client sees them.
MaxStarts == 1

\* The START: lines of the console in what connection c was sent.
AdminStarts(c) == Len(SelectSeq(outbox[c], LAMBDA e : e.src = 0))

\* main, console command 'start': broadcast('START:') from the main thread.
AdminStart ==
    /\ accpc \in {"accept", "register"}
    /\ lock = 0
    /\ \A c \in Conns : AdminStarts(c) < MaxStarts
    /\ LET at == {clients[i].sock : i \in 1..Len(clients)} IN
       \E failed \in SUBSET MayFail(at) :
        /\ MustFail(at) \subseteq failed
        /\ outbox' = Delivered(outbox, at \ failed, STARTl, 0, 0)
        /\ srvClosed' = [c \in Conns |-> srvClosed[c] \/ c \in failed]
        /\ clients' = AfterSendLoop(clients, failed)
    /\ UNCHANGED <<agentVars, codec, conpc>>
    /\ UNCHANGED <<lock, pc, cur, snap, popped, accpc, nconn, inbox, peerClosed, sent>>

\* 'quit' ending the handlers and the connections while the accept loop goes on.
AdminQuitKeepsListening ==
    /\ accpc \in {"accept", "register"}
    /\ \E c \in Conns : pc[c] \notin {"none", "killed"}
    /\ pc' = [c \in Conns |-> IF pc[c] = "none" THEN "none" ELSE "killed"]
    /\ srvClosed' = [c \in Conns |-> srvClosed[c] \/ Established(c)]
    /\ UNCHANGED <<agentVars, codec, conpc>>
    /\ UNCHANGED <<clients, lock, cur, snap, popped, accpc, nconn, inbox, outbox, peerClosed, sent>>

\* main, console command 'quit' or 'exit': the loop ends, the listening socket
\* is closed and the process exits; its daemon threads end with it and every
\* connection is closed.
AdminQuit ==
    /\ accpc \in {"accept", "register"}
    /\ accpc' = "down"
    /\ pc' = [c \in Conns |-> IF pc[c] = "none" THEN "none" ELSE "killed"]
    /\ srvClosed' = [c \in Conns |-> srvClosed[c] \/ Established(c)]
    /\ UNCHANGED <<agentVars, codec, conpc>>
    /\ UNCHANGED <<clients, lock, cur, snap, popped, nconn, inbox, outbox, peerClosed, sent>>

\* The handler of a connection whose peer is a client that joins and chats.
ChatHandler(h) ==
    \/ HRecv(h)
    \/ HJoinBind(h)
    \/ Broadcast(h)
    \/ Serialize(h)

NextShutdown ==
    \/ Accept
    \/ Register
    \/ AdminQuit
    \/ \E c \in Conns : AgentConnect(c)
    \/ \E c \in Conns : AgentConnectFail(c)
    \/ \E c \in Conns : AgentSendChat(c)
    \/ \E c \in Observed : AgentThreads(c)
    \/ \E c \in Observed : AgentListenEnd(c)
    \/ \E h \in Conns : ChatHandler(h)

\* The server with its console and clients that join and chat, until the
\* server is shut down and after.
SpecShutdown == Init /\ [][NextShutdown]_vars

NextConsole ==
    \/ Accept
    \/ Register
    \/ AdminStart
    \/ \E c \in Conns : AgentConnect(c)
    \/ \E c \in Observed : AgentThreads(c)
    \/ \E h \in Conns : ChatHandler(h)

\* The server with its console and clients that join and then watch.
SpecConsole == Init /\ [][NextConsole]_vars

\* The server with arbitrary peers, where the acceptor and every handler thread
\* that can take a step eventually take one.  What the peers do is left free.
FairSpec ==
    /\ Init
    /\ [][Next]_vars
    /\ WF_vars(Register)
    /\ \A h \in Conns : WF_vars(Handler(h))

----------------------------------------------------------------------------
(* Peers that write malformed lines. *)

\* Lines that do not follow the protocol, with a JOIN and a CHAT around them:
\* bytes that are not UTF-8, READY and LEVEL without the value field, READY and
\* LEVEL with a value that is not an integer.
MalformedLines(c) ==
    { <<BadByte>>,
      READYp \o PlayerName(c), ReadyLine(c, <<"x">>),
      LEVELp \o PlayerName(c), LevelLine(c, <<"x">>),
      JoinLine(c), ChatLine(c, <<"hi">>) }

\* A peer writes one of these lines.
PeerSendMalformed(c) ==
    /\ Established(c)
    /\ ~peerClosed[c]
    /\ TotalSent < MaxLines
    /\ \E line \in MalformedLines(c) :
        /\ inbox' = [inbox EXCEPT ![c] = Append(@, [line |-> line, seq |-> Len(sent[c]) + 1])]
        /\ sent' = [sent EXCEPT ![c] = Append(@, line)]
    /\ UNCHANGED <<agentVars, codec, conpc>>
    /\ UNCHANGED <<serverVars, outbox, peerClosed, srvClosed>>

\* The handler of a connection whose peer writes these lines and stays
\* connected: the branches it can take.
MalformedHandler(h) ==
    \/ HRecv(h)
    \/ HJoinBind(h)
    \/ Broadcast(h)
    \/ Serialize(h)
    \/ HReadySet(h)
    \/ HLevelSet(h)
    \/ HFinallyPop(h)

NextMalformed ==
    \/ Accept
    \/ Register
    \/ \E c \in Conns : PeerSendMalformed(c)
    \/ \E h \in Conns : MalformedHandler(h)

SpecMalformed == Init /\ [][NextMalformed]_vars

----------------------------------------------------------------------------
(* Reading a snapshot back. *)

\* The entries of a snapshot text: text.split(';'), none for the empty text.
Entries(text) == IF text = <<>> THEN <<>> ELSE Split(text, ";", Len(text))

\* The name field of one 'name,level,ready' entry.
EntryName(e) == Split(e, ",", 2)[1]

\* The names listed in a snapshot text.
NamesIn(text) == {EntryName(Entries(text)[i]) : i \in 1..Len(Entries(text))}

\* The connections that have completed a JOIN and are still in the roster.
Joined(cl) == {cl[i].sock : i \in {j \in 1..Len(cl) : cl[j].name # NoneName}}

Socks(cl) == {cl[i].sock : i \in 1..Len(cl)}

\* The lines of an outbox, without their tags.
LinesOf(ob) == [i \in 1..Len(ob) |-> ob[i].line]

----------------------------------------------------------------------------
(* Claims. *)

\* C1: a READY update is followed by a START: broadcast if and only if, when the
\* barrier is evaluated, a named participant exists and every named participant
\* is ready. A handler stands at the START: broadcast only when the barrier
\* held, and a handler that stands there carries the broadcast out.
C1_StartIffBarrier ==
    \A h \in Conns :
        pc[h] = "ready_start" => BarrierHolds(clients) /\ ENABLED Broadcast(h)

\* C3: in every reachable state the LIST snapshot has exactly one entry per
\* connection that has completed a JOIN and is still connected; an accepted
\* connection that has not sent JOIN contributes no entry.
C3_SnapshotIsJoined ==
    Len(Entries(SerializePlayers(clients))) = Cardinality(Joined(clients))

\* C4: when a connection that joined as <name> is removed from the roster, one
\* LEAVE:<name> is broadcast for it: the handler that popped a named entry
\* carries the LEAVE broadcast out.
C4_LeaveOnRemoval ==
    \A h \in Conns : pc[h] = "fin_leave" => ENABLED Broadcast(h)

\* What one call of broadcast(line) by handler h does, read off the step: the
\* connections whose send raised are exactly those that left the roster, only
\* a closed connection can be among them, every other entry is kept as it was,
\* and each remaining connection that still reads has the line appended once.
BroadcastEffect(h, line) ==
    LET at == Socks(clients)
        failed == at \ Socks(clients')
    IN  /\ Socks(clients') \subseteq at
        /\ failed \subseteq {c \in at : peerClosed[c] \/ srvClosed[c]}
        /\ {c \in at : srvClosed[c]} \subseteq failed
        /\ clients' = Without(clients, failed)
        /\ \A c \in Conns :
            outbox'[c] = IF c \in at \ failed /\ ~peerClosed[c]
                         THEN Append(outbox[c], [line |-> line, src |-> h, seq |-> cur[h].seq])
                         ELSE outbox[c]

\* Handler h moves from program point p to q in this step.
Moves(h, p, q) == pc[h] = p /\ pc'[h] = q

\* Handler h takes the next line of its connection in this step.
Takes(h) == inbox[h] # <<>> /\ inbox'[h] = Tail(inbox[h])

\* The name a JOIN line carries.
JoinName(h) == Split(cur[h].line, Colon, 1)[2]

\* What connection c has received of the lines its own handler sent.
OwnLines(c) == LinesOf(SelectSeq(outbox[c], LAMBDA e : e.src = c))

\* C8 (as stated): a JOIN binds the name to the sender's roster entry, and the
\* LIST snapshot broadcast after JOIN:<name> contains <name>.
C8_JoinBindsAndLists ==
    [][\A h \in Conns :
        /\ Moves(h, "join_bind", "join_bc") =>
              /\ Has(clients', h)
              /\ clients'[IndexOf(clients', h)].name = JoinName(h)
        /\ Moves(h, "join_ser", "join_list") => JoinName(h) \in NamesIn(snap'[h])
      ]_vars

\* The only connection there is has sent JOIN:Alice as its first line, that
\* line has been processed, and the peer still reads.
AloneJoined ==
    /\ nconn = 1
    /\ sent[1] # <<>> /\ sent[1][1] = JoinLine(1)
    /\ cur[1].seq = 1 /\ pc[1] = "recv"
    /\ ~peerClosed[1]

\* C8 (amended): a JOIN binds the name to the sender's entry if the sender is
\* still in the roster; JOIN:<name> and then LIST:<snapshot> are sent to every
\* connection in the roster whose send succeeds; the snapshot contains <name> if
\* the sender is in the roster when it is taken; alone, as its first line,
\* JOIN:Alice is answered by exactly JOIN:Alice and LIST:Alice,1,0.
C8_JoinBroadcast ==
    [][/\ \A h \in Conns :
            /\ Moves(h, "join_bind", "join_bc") =>
                  /\ Socks(clients') = Socks(clients)
                  /\ \A i \in 1..Len(clients) :
                        clients'[i] = IF clients[i].sock = h
                                      THEN [clients[i] EXCEPT !.name = JoinName(h)]
                                      ELSE clients[i]
            /\ Moves(h, "join_bc", "join_ser") => BroadcastEffect(h, JOINp \o JoinName(h))
            /\ Moves(h, "join_ser", "join_list") =>
                  (Has(clients, h) => JoinName(h) \in NamesIn(snap'[h]))
            /\ Moves(h, "join_list", "recv") => BroadcastEffect(h, LISTp \o snap[h])
       /\ AloneJoined' =>
            LinesOf(outbox'[1]) = << <<"JOIN", ":", "Alice">>,
                                     <<"LIST", ":", "Alice", ",", "1", ",", "0">> >>
      ]_vars

\* C8's case: the lone peer has joined as Alice and has got both lines.
C8_Witness == AloneJoined /\ Len(outbox[1]) = 2

\* C8's other case: a JOIN is processed for a connection that a broadcast has
\* already removed from the roster.
C8_WitnessRemoved == \E h \in Conns : pc[h] = "join_list" /\ ~Has(clients, h)

\* C9 (as stated): a CHAT line is sent unchanged, once, to every connection in
\* the roster, the sender included, and the roster is left unchanged.
C9_ChatLeavesRoster ==
    [][\A h \in Conns :
        Moves(h, "chat_bc", "recv") =>
            /\ clients' = clients
            /\ \A c \in Socks(clients) :
                ~peerClosed[c] =>
                    outbox'[c] = Append(outbox[c], [line |-> cur[h].line, src |-> h,
                                                    seq |-> cur[h].seq])
      ]_vars

\* Connection c sent JOIN and then CHAT, both have been processed, and the
\* peer still reads.
JoinedThenChatted(c) ==
    /\ Len(sent[c]) >= 2
    /\ sent[c][1] = JoinLine(c) /\ sent[c][2] = ChatLine(c, <<"hi">>)
    /\ cur[c].seq = 2 /\ pc[c] = "recv"
    /\ ~peerClosed[c]

\* C9 (amended): a CHAT line is sent unchanged, once, to every connection in the
\* roster whose send succeeds, the sender included; a connection whose send fails
\* is closed and removed, and nothing else in the roster changes. A peer that
\* sends JOIN and then CHAT and keeps reading gets back its JOIN, a LIST
\* snapshot and its CHAT line, in that order.
C9_ChatBroadcast ==
    [][/\ \A h \in Conns :
            Moves(h, "chat_bc", "recv") => BroadcastEffect(h, cur[h].line)
       /\ \A h \in Conns :
            (Takes(h) /\ StartsWith(Head(inbox[h]).line, CHATp)) =>
                (pc'[h] = "chat_bc" /\ cur'[h].line = Head(inbox[h]).line)
       /\ \A c \in Conns :
            JoinedThenChatted(c)' =>
                /\ Len(OwnLines(c)') = 3
                /\ OwnLines(c)'[1] = JoinLine(c)
                /\ StartsWith(OwnLines(c)'[2], LISTp)
                /\ OwnLines(c)'[3] = ChatLine(c, <<"hi">>)
      ]_vars

\* C9's case: with two connections in the roster, one has joined and chatted,
\* and the other has received the chat line.
C9_Witness ==
    \E c, d \in Conns :
        /\ c # d
        /\ JoinedThenChatted(c)
        /\ \E i \in 1..Len(outbox[d]) : outbox[d][i].line = ChatLine(c, <<"hi">>)

\* C10 (as stated): a line that matches no command is broadcast unchanged to
\* all connections and changes neither the roster nor the barrier's outcome.
C10_UnknownLeavesRoster ==
    [][\A h \in Conns :
        Moves(h, "other_bc", "recv") =>
            /\ clients' = clients
            /\ BarrierHolds(clients') = BarrierHolds(clients)
      ]_vars

\* C10 (amended): a line that matches no command is broadcast unchanged to
\* every connection in the roster whose send succeeds, the sender included; a
\* connection whose send fails is closed and removed; no entry's name, level or
\* ready flag changes.
C10_UnknownBroadcast ==
    [][\A h \in Conns :
        /\ Moves(h, "other_bc", "recv") => BroadcastEffect(h, cur[h].line)
        /\ (Takes(h) /\ Head(inbox[h]).line = FooLine) =>
                (pc'[h] = "other_bc" /\ cur'[h].line = FooLine)
      ]_vars

\* C10's case: FOO:bar has been broadcast and has reached its sender and
\* another connection.
C10_Witness ==
    \E c, d \in Conns :
        /\ c # d
        /\ \E i \in 1..Len(outbox[c]) : outbox[c][i] = [line |-> FooLine, src |-> c, seq |-> 1]
        /\ \E i \in 1..Len(outbox[d]) : outbox[d][i] = [line |-> FooLine, src |-> c, seq |-> 1]

----------------------------------------------------------------------------
(* The ready barrier, disconnects and chat delivery under fair scheduling. *)

\* Every client has joined and then sent READY:<own name>:1, and nothing else.
AllReadied == \A c \in Conns : sent[c] = <<JoinLine(c), ReadyLine(c, <<"1">>)>>

\* Connection c has been sent a START: line.
GotStart(c) == STARTl \in Range(LinesOf(outbox[c]))

\* C2: once the clients (Alice and Bob) have joined and each has sent
\* READY:<own name>:1, every one of them is eventually sent a START: line.
C2_ReadyStartsGame == AllReadied ~> (\A c \in Conns : GotStart(c))

\* Connection c has a name in the roster and its peer has closed it.
ClosedWhileJoined(c) ==
    /\ peerClosed[c]
    /\ \E i \in 1..Len(clients) : clients[i].sock = c /\ Truthy(clients[i].name)

\* The names listed by a LIST: line.
ListedNames(line) == NamesIn(SubSeq(line, Len(LISTp) + 1, Len(line)))

\* Connection d has been sent LEAVE:<name of c> and after it a LIST: line in
\* which that name no longer appears.
LeaveThenList(d, c) ==
    \E i \in 1..Len(outbox[d]) : \E j \in 1..Len(outbox[d]) :
        /\ i < j
        /\ outbox[d][i].line = LEAVEp \o PlayerName(c)
        /\ StartsWith(outbox[d][j].line, LISTp)
        /\ PlayerName(c) \notin ListedNames(outbox[d][j].line)

\* The handler of c has returned and every connection still in the roster and
\* still open has been told.
CloseAnnounced(c) ==
    /\ pc[c] = "done"
    /\ \A d \in Socks(clients) \ {c} : ~peerClosed[d] => LeaveThenList(d, c)

\* C5: when a joined client closes its connection without sending LEAVE, the
\* remaining connections are eventually sent LEAVE:<name> and then a LIST:
\* without the name, and the handler of the closed connection terminates.
C5_CloseAnnounced == \A c \in Conns : ClosedWhileJoined(c) ~> CloseAnnounced(c)

\* Client c has sent a CHAT line with the message msg.
ChatSentBy(c, msg) == ChatLine(c, msg) \in Range(sent[c])

\* C6: every CHAT line a connected client sends is eventually in the chat
\* transcript of every other client that is connected to the server.
C6_ChatReachesAll ==
    \A c \in Conns : \A d \in Observed \ {c} : \A msg \in ChatTexts :
        (ChatSentBy(c, msg) /\ Has(clients, d) /\ status[d] = "connected")
            ~> (<<PlayerName(c), msg>> \in Range(chat[d]))

----------------------------------------------------------------------------
(* Order. *)

\* The received lines posted to the UI thread of client c and not yet handled.
QueuedLines(c) ==
    LET q == SelectSeq(uiq[c], LAMBDA ev : ev.kind = "line") IN
    [i \in 1..Len(q) |-> q[i].e]

\* C7: the lines of one connection are handled in the order they were sent, no
\* recipient is sent the broadcast of a later line of a connection before the
\* broadcast of an earlier one, and the client handles the lines it received in
\* the order it received them.
C7_OrderPreserved ==
    /\ \A h \in Conns : \A i \in 1..Len(inbox[h]) :
        /\ inbox[h][i].seq = cur[h].seq + i
        /\ inbox[h][i].line = sent[h][inbox[h][i].seq]
    /\ \A r \in Conns : \A i \in 1..Len(outbox[r]) : \A j \in 1..Len(outbox[r]) :
        (i < j /\ outbox[r][i].src = outbox[r][j].src)
            => outbox[r][i].seq <= outbox[r][j].seq
    /\ \A r \in Conns : \A i \in 1..Len(outbox[r]) :
        ~StartsWith(outbox[r][i].line, LISTp) /\ outbox[r][i].line # STARTl
            => outbox[r][i].line = sent[outbox[r][i].src][outbox[r][i].seq]
    /\ \A r \in Conns : applied[r] \o QueuedLines(r) = SubSeq(outbox[r], 1, rpos[r])

\* A client has handled the broadcasts of the first and the second line of
\* another connection, the second a CHAT now in its transcript.
C7_Witness ==
    \E r \in Observed : \E s \in Conns \ {r} :
    \E i \in 1..Len(applied[r]) : \E j \in 1..Len(applied[r]) :
        /\ i < j
        /\ applied[r][i].src = s /\ applied[r][i].seq = 1
        /\ applied[r][j].src = s /\ applied[r][j].seq = 2
        /\ StartsWith(applied[r][j].line, CHATp)
        /\ \E msg \in ChatTexts : <<PlayerName(s), msg>> \in Range(chat[r])

----------------------------------------------------------------------------
(* Malformed lines. *)

\* C11: no line content makes the server close the sender's connection: the
\* server closes a connection only after its peer has closed it.
C11_NoLineClosesSender == \A c \in Conns : srvClosed[c] => peerClosed[c]

----------------------------------------------------------------------------
(* The order of the snapshot. *)

\* C12: the snapshot lists the Participants in the order in which they completed
\* JOIN: an entry that gets its name comes after every entry that already has one.
C12_JoinOrder ==
    [][\A i \in 1..Len(clients) :
          (/\ i <= Len(clients')
           /\ clients'[i].sock = clients[i].sock
           /\ ~Truthy(clients[i].name)
           /\ Truthy(clients'[i].name))
          => \A j \in Named(clients) : j < i]_vars

----------------------------------------------------------------------------
(* The client without a server. *)

\* The transcript t after its first line holds only messages client c typed.
OnlyLocalChat(c, t) ==
    \A i \in 2..Len(t) : \E msg \in ChatTexts : t[i] = <<PlayerName(c), msg>>

\* C13: a client whose connect attempt failed is offline: its roster is the
\* local player followed by the two placeholder rows, it has no socket, nothing
\* was ever written to the network, and its transcript is the welcome line
\* followed by exactly the messages it typed.
C13_OfflineIsLocal ==
    \A c \in Conns : status[c] = "offline" =>
        /\ tree[c] = << <<PlayerName(c), "You", "1">>,
                        <<<<"InvaderAce">>, "Waiting", "4">>,
                        <<<<"StarGazer">>, "Ready", "7">> >>
        /\ ~netsock[c]
        /\ sent[c] = <<>> /\ inbox[c] = <<>>
        /\ chat[c] # <<>>
        /\ chat[c][1] = <<<<"System">>, <<"Welcome to Space Blast Lobby! (offline)">>>>
        /\ OnlyLocalChat(c, chat[c])

\* An offline client has sent a chat message, now in its transcript.
C13_Witness ==
    \E c \in Conns : status[c] = "offline" /\ Len(chat[c]) >= 2 /\ accpc = "failed"

----------------------------------------------------------------------------
(* The client's view of the roster. *)

\* Nothing is in flight for client r: every line written has been handled by
\* the server, every handler waits for input, and r has handled all it was sent.
Quiescent(r) ==
    /\ lock = 0
    /\ accpc = "accept"
    /\ \A h \in Conns : inbox[h] = <<>> /\ pc[h] \in {"none", "recv"}
    /\ status[r] = "connected"
    /\ Has(clients, r)
    /\ rpos[r] = Len(outbox[r])
    /\ uiq[r] = <<>>

\* The named entries of the roster with their ready state, as rows show it.
ServerView == {<<clients[i].name, IF clients[i].ready # 0 THEN "Ready" ELSE "Waiting">> :
                  i \in Named(clients)}

\* The names and states in the rows of client r.
RosterView(r) == {<<tree[r][i][1], tree[r][i][2]>> : i \in 1..Len(tree[r])}

\* C14: once nothing is in flight, the rows of a connected client are exactly
\* the server's named Participants with their ready state.
C14_RosterViewMirrors == \A r \in Observed : Quiescent(r) => RosterView(r) = ServerView

----------------------------------------------------------------------------
(* What the client makes of LIST: and START: lines. *)

\* What the user of client c can see of the lobby.
UiState(c) == <<chat[c], tree[c], ready[c], status[c]>>

\* The UI thread of client c handles a received START: or LIST: line.
HandlesStartOrList(c) ==
    /\ uiq[c] # <<>>
    /\ uiq'[c] = Tail(uiq[c])
    /\ Head(uiq[c]).kind = "line"
    /\ \/ Head(uiq[c]).e.line = STARTl
       \/ StartsWith(Head(uiq[c]).e.line, LISTp)

\* C15: every START: line and every LIST: line that reaches a client is
\* dispatched as a start or list event the client observes: handling it changes
\* what the lobby shows.
C15_StartAndListObserved ==
    [][\A c \in Observed : HandlesStartOrList(c) => UiState(c)' # UiState(c)]_vars

----------------------------------------------------------------------------
(* The client after its connection has failed. *)

\* The listener of client c has seen its connection fail, the UI thread has
\* run what the listener posted, and the user has not left the lobby.
ConnectionLost(c) == lpc[c] = "done" /\ uiq[c] = <<>> /\ status[c] # "left"

\* C16: when an established connection fails mid-session the client falls back
\* to offline mode: its status is offline and it holds no socket any more.
C16_FallsBackOffline ==
    \A c \in Conns : ConnectionLost(c) => status[c] = "offline" /\ ~netsock[c]

-----------------------------------------------------------------------------
(* The ready flag. *)

\* The lobby with the ready control and a server that may quit: the client
\* toggles while the connection is up, after it is lost, and in offline mode.
NextToggle ==
    \/ Accept
    \/ Register
    \/ AdminQuit
    \/ \E c \in Conns : AgentConnect(c)
    \/ \E c \in Conns : AgentConnectFail(c)
    \/ \E c \in Conns : AgentToggleReady(c)
    \/ \E c \in Observed : AgentThreads(c)
    \/ \E c \in Observed : AgentListenEnd(c)
    \/ \E h \in Conns : LobbyHandler(h)

SpecToggle == Init /\ [][NextToggle]_vars

\* The READY lines client c has written, in order.
ReadySent(c) == SelectSeq(sent[c], LAMBDA l : StartsWith(l, READYp))

\* The READY line of client c for a flag.
ReadyOf(c, flag) == READYp \o PlayerName(c) \o <<Colon, IF flag THEN "1" ELSE "0">>

\* Client c holds a socket and neither end of the connection is closed.
LiveConn(c) == netsock[c] /\ ~peerClosed[c] /\ ~srvClosed[c]

-----------------------------------------------------------------------------
(* The codec: one command from the fields a client encodes, through the
   server's handler, to the fields a receiving client decodes. *)

\* Longest chat text tried.
MaxText == 3

\* A chat text: what send_chat has after strip(), never empty; ':' may occur
\* anywhere in it.
Texts == UNION {[1..n -> {"hi", Colon}] : n \in 1..MaxText}

\* A command and its fields before encoding.
CodecInputs ==
    [cmd : {"CHAT"}, who : Conns, text : Texts, num : {0}]
    \cup [cmd : {"READY"}, who : Conns, text : {<<>>}, num : {0, 1}]
    \cup [cmd : {"LEVEL"}, who : Conns, text : {<<>>}, num : IntRange]
    \cup [cmd : {"JOIN"}, who : Conns, text : {<<>>}, num : {0}]

\* The fields of a decoded line.
Fields(cmd, name, text, num) == [cmd |-> cmd, name |-> name, text |-> text, num |-> num]

\* A line no branch decodes.
Unrecognized == Fields("none", <<>>, <<>>, 0)

\* The line a client writes for a command: f'CHAT:{name}:{msg}',
\* f'READY:{name}:{state}', f'JOIN:{myname}', and LEVEL:name:level.
Encode(m) ==
    CASE m.cmd = "CHAT" -> ChatLine(m.who, m.text)
      [] m.cmd = "READY" -> ReadyLine(m.who, IF m.num = 1 THEN <<"1">> ELSE <<"0">>)
      [] m.cmd = "LEVEL" -> LevelLine(m.who, Str(m.num))
      [] m.cmd = "JOIN" -> JoinLine(m.who)

\* What handle_client takes out of a line: the name of a JOIN, the name and
\* int(rv) of a READY, the name and int(lv) (1 when int raises) of a LEVEL.  A
\* CHAT line is not taken apart.
ServerDecode(line) ==
    IF StartsWith(line, JOINp)
    THEN Fields("JOIN", Split(line, Colon, 1)[2], <<>>, 0)
    ELSE IF StartsWith(line, CHATp)
    THEN Fields("CHAT", <<>>, <<>>, 0)
    ELSE IF StartsWith(line, READYp)
    THEN LET parts == Split(line, Colon, 2) IN
         IF Len(parts) >= 3 /\ IntOf(parts[3]) # NoInt
         THEN Fields("READY", parts[2], <<>>, IntOf(parts[3]))
         ELSE Unrecognized
    ELSE IF StartsWith(line, LEVELp)
    THEN LET parts == Split(line, Colon, 2) IN
         IF Len(parts) >= 3
         THEN Fields("LEVEL", parts[2], <<>>, IF IntOf(parts[3]) = NoInt THEN 1 ELSE IntOf(parts[3]))
         ELSE Unrecognized
    ELSE Unrecognized

\* The line handle_client broadcasts for a received line: JOIN:<name> rebuilt
\* from the decoded name, a CHAT or READY line as received; for a LEVEL line
\* only a LIST snapshot goes out.
ServerRelay(line) ==
    IF StartsWith(line, JOINp) THEN JOINp \o Split(line, Colon, 1)[2]
    ELSE IF StartsWith(line, LEVELp) THEN <<>>
    ELSE line

\* _handle_network_line cutting a CHAT line at every colon.
ClientDecodeEveryColon(line) ==
    IF StartsWith(line, CHATp)
    THEN LET parts == Split(line, Colon, Len(line)) IN
         IF Len(parts) >= 3 THEN Fields("CHAT", parts[2], parts[3], 0) ELSE Unrecognized
    ELSE IF StartsWith(line, JOINp)
    THEN Fields("JOIN", Split(line, Colon, 1)[2], <<>>, 0)
    ELSE IF StartsWith(line, LEAVEp)
    THEN Fields("LEAVE", Split(line, Colon, 1)[2], <<>>, 0)
    ELSE IF StartsWith(line, READYp)
    THEN LET parts == Split(line, Colon, 2) IN
         IF Len(parts) = 3
         THEN Fields("READY", parts[2], <<>>, IF parts[3] = <<"1">> THEN 1 ELSE 0)
         ELSE Unrecognized
    ELSE Unrecognized

\* What _handle_network_line takes out of a line: name and message of a CHAT,
\* the name of a JOIN or LEAVE, name and state == '1' of a READY.
ClientDecode(line) ==
    IF StartsWith(line, CHATp)
    THEN LET parts == Split(line, Colon, 2) IN
         IF Len(parts) = 3 THEN Fields("CHAT", parts[2], parts[3], 0) ELSE Unrecognized
    ELSE IF StartsWith(line, JOINp)
    THEN Fields("JOIN", Split(line, Colon, 1)[2], <<>>, 0)
    ELSE IF StartsWith(line, LEAVEp)
    THEN Fields("LEAVE", Split(line, Colon, 1)[2], <<>>, 0)
    ELSE IF StartsWith(line, READYp)
    THEN LET parts == Split(line, Colon, 2) IN
         IF Len(parts) = 3
         THEN Fields("READY", parts[2], <<>>, IF parts[3] = <<"1">> THEN 1 ELSE 0)
         ELSE Unrecognized
    ELSE Unrecognized

\* Any well-formed command is about to be encoded; nothing else has happened.
InitCodec ==
    /\ clients = <<>>
    /\ lock = 0
    /\ pc = [c \in Conns |-> "none"]
    /\ cur = [c \in Conns |-> [line |-> <<>>, seq |-> 0]]
    /\ snap = [c \in Conns |-> <<>>]
    /\ popped = [c \in Conns |-> NoneName]
    /\ accpc = "accept"
    /\ nconn = 0
    /\ inbox = [c \in Conns |-> <<>>]
    /\ outbox = [c \in Conns |-> <<>>]
    /\ peerClosed = [c \in Conns |-> FALSE]
    /\ srvClosed = [c \in Conns |-> FALSE]
    /\ sent = [c \in Conns |-> <<>>]
    /\ status = [c \in Conns |-> "idle"]
    /\ netsock = [c \in Conns |-> FALSE]
    /\ lpc = [c \in Conns |-> "none"]
    /\ rpos = [c \in Conns |-> 0]
    /\ uiq = [c \in Conns |-> <<>>]
    /\ chat = [c \in Conns |-> <<>>]
    /\ tree = [c \in Conns |-> <<>>]
    /\ ready = [c \in Conns |-> FALSE]
    /\ applied = [c \in Conns |-> <<>>]
    /\ conpc = "input"
    /\ codec \in [at : {"input"}, msg : CodecInputs, line : {<<>>}, relay : {<<>>},
                  srv : {Unrecognized}, cli : {Unrecognized}]

\* The sending client builds the line.
CodecEncode ==
    /\ codec.at = "input"
    /\ codec' = [codec EXCEPT !.at = "line", !.line = Encode(codec.msg)]
    /\ UNCHANGED <<serverVars, netVars, agentVars, conpc>>

\* The server's handler takes the line apart and broadcasts.
CodecServe ==
    /\ codec.at = "line"
    /\ codec' = [codec EXCEPT !.at = "served",
                              !.srv = ServerDecode(codec.line),
                              !.relay = ServerRelay(codec.line)]
    /\ UNCHANGED <<serverVars, netVars, agentVars, conpc>>

\* A receiving client takes the broadcast line apart.
CodecShow ==
    /\ codec.at = "served"
    /\ codec.relay # <<>>
    /\ codec' = [codec EXCEPT !.at = "shown", !.cli = ClientDecode(codec.relay)]
    /\ UNCHANGED <<serverVars, netVars, agentVars, conpc>>

NextCodec ==
    \/ CodecEncode
    \/ CodecServe
    \/ CodecShow

SpecCodec == InitCodec /\ [][NextCodec]_vars

\* The command and fields that went into the encoder.
Original(m) == Fields(m.cmd, PlayerName(m.who), m.text, m.num)

\* C18: what the server takes out of an encoded JOIN, READY or LEVEL line, and
\* what a receiving client takes out of the broadcast CHAT, JOIN or READY line,
\* are the command and the fields that were encoded; a chat text comes out
\* whole, with every ':' it contains.
C18_RoundTrip ==
    /\ codec.at \in {"served", "shown"} /\ codec.msg.cmd \in {"JOIN", "READY", "LEVEL"} =>
        codec.srv = Original(codec.msg)
    /\ codec.at \in {"served", "shown"} /\ codec.msg.cmd = "CHAT" =>
        codec.relay = Encode(codec.msg)
    /\ codec.at = "shown" =>
        /\ codec.msg.cmd \in {"CHAT", "JOIN", "READY"}
        /\ codec.cli = Original(codec.msg)

\* A receiver has decoded a chat whose text has two colons in it.
C18_Witness ==
    /\ codec.at = "shown"
    /\ codec.msg.cmd = "CHAT"
    /\ Cardinality({i \in 1..Len(codec.msg.text) : codec.msg.text[i] = Colon}) >= 2
    /\ codec.cli.text = codec.msg.text

-----------------------------------------------------------------------------
(* START? *)

\* Lines the peers write in all when they ask whether to start.
MaxAsked == 3

\* What a peer that asks may write: it readies, joins and asks in any order.
AskLines(c) == {ReadyLine(c, <<"1">>), JoinLine(c), STARTq}

\* A peer writes one of these lines.
PeerAsk(c) ==
    /\ Established(c)
    /\ ~peerClosed[c]
    /\ TotalSent < MaxAsked
    /\ \E line \in AskLines(c) :
        /\ inbox' = [inbox EXCEPT ![c] = Append(@, [line |-> line, seq |-> Len(sent[c]) + 1])]
        /\ sent' = [sent EXCEPT ![c] = Append(@, line)]
    /\ UNCHANGED <<agentVars, codec, conpc>>
    /\ UNCHANGED <<serverVars, outbox, peerClosed, srvClosed>>

\* The branches a handler takes on these lines and on a closed connection.
AskHandler(h) ==
    \/ HRecv(h)
    \/ HEof(h)
    \/ HJoinBind(h)
    \/ Broadcast(h)
    \/ Serialize(h)
    \/ HReadySet(h)
    \/ HReadyCheck(h)
    \/ HStartQ(h)
    \/ HFinallyPop(h)

NextAsk ==
    \/ Accept
    \/ Register
    \/ \E c \in Conns : PeerAsk(c)
    \/ \E c \in Conns : PeerClose(c)
    \/ \E h \in Conns : AskHandler(h)

SpecAsk == Init /\ [][NextAsk]_vars

\* At least one roster entry has a name and every entry with a name is ready.
AllNamedReady ==
    LET named == {i \in 1..Len(clients) : clients[i].name # NoneName /\ clients[i].name # <<>>}
    IN  named # {} /\ \A i \in named : clients[i].ready # 0

\* C19: the step that answers a START? of connection h leaves the roster and
\* every other connection's received lines alone; it sends at most START: to h,
\* sends it only if a named entry exists and all named entries are ready, and
\* sends it in that case whenever h's connection is open.
C19_StartReplyToRequester ==
    [][\A h \in Conns : pc[h] = "startq" /\ pc'[h] # "startq" =>
          /\ clients' = clients
          /\ \A c \in Conns \ {h} : outbox'[c] = outbox[c]
          /\ outbox'[h] \in {outbox[h],
                             Append(outbox[h], [line |-> STARTl, src |-> h, seq |-> cur[h].seq])}
          /\ outbox'[h] # outbox[h] => AllNamedReady
          /\ AllNamedReady /\ ~peerClosed[h] /\ ~srvClosed[h] => outbox'[h] # outbox[h]]_vars

\* A START? has been answered with START: while another connection exists.
C19_Witness ==
    \E h \in Conns :
        /\ cur[h].line = STARTq
        /\ pc[h] = "recv"
        /\ outbox[h] # <<>>
        /\ outbox[h][Len(outbox[h])] = [line |-> STARTl, src |-> h, seq |-> cur[h].seq]
        /\ Len(clients) = MaxConns

-----------------------------------------------------------------------------
(* Startup with the port taken. *)

\* C20: a bind that finds the port in use is retried on the next port, so
\* main() never ends on the failed bind.  Violated: bind is called once and its
\* OSError ends main().
C20_BindRetried == accpc # "failed"

-----------------------------------------------------------------------------
(* The console command quit. *)

\* The quit command has been processed: the accept loop is gone, or a handler
\* thread has ended with the process.
QuitProcessed == accpc = "down" \/ \E c \in Conns : pc[c] = "killed"

\* C21: once quit has been processed no connection is accepted and no entry is
\* added to the roster.
C21_QuitStopsAccepting ==
    [][QuitProcessed => nconn' = nconn /\ clients' = clients /\ accpc' = accpc]_vars

\* Quit was processed with one connection registered and room for another,
\* and a client has since tried to connect and found nothing listening.
C21_Witness ==
    /\ QuitProcessed
    /\ nconn < MaxConns
    /\ Len(clients) = nconn /\ nconn > 0
    /\ \E c \in Conns : status[c] = "offline"

-----------------------------------------------------------------------------
(* The console command start. *)

\* main: input() returns 'start'; the main thread is about to call
\* broadcast('START:').
ConsoleTypeStart ==
    /\ conpc = "input"
    /\ accpc \in {"accept", "register"}
    /\ \A c \in Conns : AdminStarts(c) < MaxStarts
    /\ conpc' = "start"
    /\ UNCHANGED <<serverVars, netVars, agentVars, codec>>

\* main: broadcast('START:') gets clients_lock, runs its send loop and
\* returns to input().
ConsoleStart ==
    /\ conpc = "start"
    /\ lock = 0
    /\ LET at == {clients[i].sock : i \in 1..Len(clients)} IN
       \E failed \in SUBSET MayFail(at) :
        /\ MustFail(at) \subseteq failed
        /\ outbox' = Delivered(outbox, at \ failed, STARTl, 0, 0)
        /\ srvClosed' = [c \in Conns |-> srvClosed[c] \/ c \in failed]
        /\ clients' = AfterSendLoop(clients, failed)
    /\ conpc' = "input"
    /\ UNCHANGED <<agentVars, codec>>
    /\ UNCHANGED <<lock, pc, cur, snap, popped, accpc, nconn, inbox, peerClosed, sent>>

NextStart ==
    \/ Next
    \/ ConsoleTypeStart
    \/ ConsoleStart

\* The server with arbitrary peers and an operator who may type start; the
\* acceptor, the handlers and the main thread take a step when they can.
FairSpecStart ==
    /\ Init
    /\ [][NextStart]_vars
    /\ WF_vars(Register)
    /\ \A h \in Conns : WF_vars(Handler(h))
    /\ WF_vars(ConsoleStart)

\* C22: when start is typed, every connection in the roster whose two ends stay
\* open is eventually sent the console's START: line.
C22_StartReachesAll ==
    \A c \in Conns :
        (conpc = "start" /\ Has(clients, c))
            ~> (AdminStarts(c) > 0 \/ peerClosed[c] \/ srvClosed[c])

-----------------------------------------------------------------------------
(* Peers that send any number as a ready value or a level, under any name. *)

\* What such a peer may write: JOIN under its own name, READY under any
\* player's name with any number, LEVEL with any number or with a word.
ValueLines(c) ==
    {JoinLine(c), LevelLine(c, <<"x">>)}
    \cup {ReadyLine(d, Str(n)) : d \in Conns, n \in IntRange}
    \cup {LevelLine(c, Str(n)) : n \in IntRange}

\* A peer writes one of these lines.
PeerSendValue(c) ==
    /\ Established(c)
    /\ ~peerClosed[c]
    /\ TotalSent < MaxLines
    /\ \E line \in ValueLines(c) :
        /\ inbox' = [inbox EXCEPT ![c] = Append(@, [line |-> line, seq |-> Len(sent[c]) + 1])]
        /\ sent' = [sent EXCEPT ![c] = Append(@, line)]
    /\ UNCHANGED <<agentVars, codec, conpc>>
    /\ UNCHANGED <<serverVars, outbox, peerClosed, srvClosed>>

\* The branches a handler takes on these lines.
ValueHandler(h) ==
    \/ HRecv(h)
    \/ HJoinBind(h)
    \/ Broadcast(h)
    \/ Serialize(h)
    \/ HReadySet(h)
    \/ HReadyCheck(h)
    \/ HLevelSet(h)

NextValues ==
    \/ Accept
    \/ Register
    \/ \E c \in Conns : PeerSendValue(c)
    \/ \E h \in Conns : ValueHandler(h)

SpecValues == Init /\ [][NextValues]_vars

\* The snapshot texts of the LIST: lines the connections have been sent.
ListTexts ==
    UNION {{SubSeq(outbox[c][i].line, Len(LISTp) + 1, Len(outbox[c][i].line)) :
                i \in {j \in 1..Len(outbox[c]) : StartsWith(outbox[c][j].line, LISTp)}} :
           c \in Conns}

\* The ready field of one 'name,level,ready' entry.
EntryReady(e) == Split(e, ",", 2)[3]

\* C23: the ready field of every roster entry is 0 or 1, and so is the ready
\* field of every entry of every LIST snapshot sent.
C23_ReadyIsBit ==
    /\ \A i \in 1..Len(clients) : clients[i].ready \in {0, 1}
    /\ \A text \in ListTexts : \A k \in 1..Len(Entries(text)) :
          EntryReady(Entries(text)[k]) \in {<<"0">>, <<"1">>}

\* C24: the level of every roster entry is at least 1.
C24_LevelAtLeastOne == \A i \in 1..Len(clients) : clients[i].level >= 1

\* The name and the value of the READY line handler h is processing.
ReadyName(h) == Split(cur[h].line, Colon, 2)[2]
ReadyValue(h) == Split(cur[h].line, Colon, 2)[3]

\* C25: when READY:<name>:<v> has been applied, every roster entry bound to
\* <name> has ready = v, and in the snapshot the handler takes next every
\* entry listed under <name> has ready v.
C25_ReadySetsNamedEntry ==
    [][\A h \in Conns :
          /\ pc[h] = "ready_set" /\ pc'[h] = "ready_bc" =>
                \A i \in 1..Len(clients') :
                    clients'[i].name = ReadyName(h) => Str(clients'[i].ready) = ReadyValue(h)
          /\ pc[h] = "ready_ser" /\ pc'[h] = "ready_list" =>
                \A k \in 1..Len(Entries(snap'[h])) :
                    EntryName(Entries(snap'[h])[k]) = ReadyName(h)
                        => EntryReady(Entries(snap'[h])[k]) = ReadyValue(h)]_vars

-----------------------------------------------------------------------------
(* The roster lock. *)

\* The program points at which a handler is about to enter a
\* `with clients_lock:` block of its own, of broadcast() or of
\* _serialize_players(): every place where it reads or writes the roster.
RosterPcs ==
    BcastPcs \cup SerPcs \cup {"join_bind", "ready_set", "ready_chk", "level_set", "startq", "fin_pop"}

\* C26: no handler is at a call of broadcast() or _serialize_players() while
\* it holds the roster lock.
C26_LockReleasedBeforeBroadcast ==
    \A h \in Conns : lock = h => pc[h] \notin BcastPcs \cup SerPcs

\* C27: the roster lock is never held forever, and the acceptor and every
\* handler that waits for it gets past the place where it waits.
C27_DeadlockFree ==
    /\ \A h \in Conns : (lock = h) ~> (lock = 0)
    /\ \A h \in Conns : \A p \in RosterPcs : (pc[h] = p) ~> (pc[h] # p)

\* C28: a connection accept() has returned is eventually registered in the
\* roster and given its handler, whatever the handlers are doing.
C28_AcceptNeverBlocks ==
    \A c \in Conns : (accpc = "register" /\ nconn = c) ~> (accpc = "accept" /\ pc[c] # "none")

\* C29: a step in which the acceptor or a handler reads or writes the roster
\* (the roster or a snapshot changes, or the thread passes a place where it
\* uses the roster) is taken with the lock free for the thread to take: never
\* while another thread holds it.
C29_RosterUnderLock ==
    [][/\ clients' # clients \/ snap' # snap => lock = 0
       /\ accpc = "register" /\ accpc' # "register" => lock = 0
       /\ \A h \in Conns : pc[h] \in RosterPcs /\ pc'[h] # pc[h] => lock = 0]_vars

\* A handler holds the lock while the acceptor and another handler wait at
\* places where they use the roster.
C29_Witness ==
    \E h \in Conns : \E g \in Conns \ {h} :
        /\ lock = h
        /\ pc[g] \in RosterPcs
        /\ accpc = "accept"
        /\ Len(clients) < nconn \/ Has(clients, g)

\* What connection c was sent by handler h has a READY line, a LIST snapshot
\* and START:, one after the other.
ReadyListStart(h, c) ==
    LET o == SelectSeq(outbox[c], LAMBDA e : e.src = h) IN
    \E k \in 3..Len(o) :
        /\ StartsWith(o[k - 2].line, READYp)
        /\ StartsWith(o[k - 1].line, LISTp)
        /\ o[k].line = STARTl

\* C30: when a handler has applied a READY, sent the READY line and the LIST
\* snapshot and found the barrier satisfied, every connection in the roster
\* that stays open is eventually sent the three lines in that order.
C30_ReadyListStartInOrder ==
    \A h \in Conns : \A c \in Conns :
        (pc[h] = "ready_start" /\ Has(clients, c))
            ~> (ReadyListStart(h, c) \/ peerClosed[c] \/ srvClosed[c])

-----------------------------------------------------------------------------
(* The ready barrier: when it fires. *)

\* A connection has been sent the START: line that handler h broadcasts for
\* the n-th line of its connection.
BarrierStartSent(h, n) ==
    \E c \in Conns : \E i \in 1..Len(outbox[c]) :
        outbox[c][i] = [line |-> STARTl, src |-> h, seq |-> n]

\* C31: every READY update after which the barrier holds, the first and each
\* later one, has its own START: broadcast.
C31_BarrierRefires ==
    \A h \in Conns : \A n \in 1..MaxLines :
        (pc[h] = "ready_start" /\ cur[h].seq = n /\ Has(clients, h) /\ ~peerClosed[h])
            ~> (BarrierStartSent(h, n) \/ peerClosed[h] \/ srvClosed[h])

\* C32: whenever a named entry exists and all named entries are ready, every
\* connection in the roster that stays open is eventually sent START:.
C32_BarrierAlwaysStarts ==
    \A c \in Conns :
        (BarrierHolds(clients) /\ Has(clients, c))
            ~> (GotStart(c) \/ peerClosed[c] \/ srvClosed[c])

-----------------------------------------------------------------------------
(* One broadcast. *)

\* Handler h returns from a call of broadcast().
BroadcastDone(h) == pc[h] \in BcastPcs /\ pc'[h] # pc[h]

\* C33: in one broadcast every connection of the roster whose two ends are
\* open is sent the line once and stays in the roster; a connection whose send
\* raises is closed and removed and is sent nothing; the entries that remain
\* keep their order, and no connection outside the roster is sent anything.
C33_BroadcastStableSnapshot ==
    [][\A h \in Conns : BroadcastDone(h) =>
          LET e == [line |-> BcastLine(h), src |-> h, seq |-> cur[h].seq]
              gone == {c \in Conns : Has(clients, c) /\ ~Has(clients', c)}
          IN  /\ clients' = Without(clients, gone)
              /\ \A c \in Conns :
                    IF ~Has(clients, c)
                    THEN outbox'[c] = outbox[c] /\ srvClosed'[c] = srvClosed[c]
                    ELSE IF c \in gone
                    THEN /\ peerClosed[c] \/ srvClosed[c]
                         /\ srvClosed'[c]
                         /\ outbox'[c] = outbox[c]
                    ELSE /\ srvClosed'[c] = srvClosed[c]
                         /\ ~srvClosed[c]
                         /\ outbox'[c] = IF peerClosed[c] THEN outbox[c] ELSE Append(outbox[c], e)]_vars

\* A broadcast has closed and removed a connection whose own handler has not
\* noticed yet, and the broadcasting handler's connection was sent the line.
C33_Witness ==
    \E h \in Conns : \E c \in Conns \ {h} :
        /\ srvClosed[c] /\ ~Has(clients, c) /\ pc[c] = "recv"
        /\ Has(clients, h) /\ ~srvClosed[h]
        /\ outbox[h] # <<>>
        /\ outbox[h][Len(outbox[h])].src = h

-----------------------------------------------------------------------------
(* The order of broadcasts. *)

\* The places in what connection c was sent where the entry e stands.
PlacesOf(c, e) == {i \in 1..Len(outbox[c]) : outbox[c][i] = e}

\* C34: two lines that two connections were both sent stand in the same order
\* in what each of them was sent.
C34_SameOrderEverywhere ==
    \A c \in Conns : \A d \in Conns \ {c} :
        \A i \in 1..Len(outbox[c]) : \A j \in 1..Len(outbox[c]) :
            i < j =>
                \A k \in PlacesOf(d, outbox[c][i]) : \A l \in PlacesOf(d, outbox[c][j]) : k < l

\* Two connections were both sent the broadcasts of two different handlers.
C34_Witness ==
    \E c \in Conns : \E d \in Conns \ {c} :
        \E i \in 1..Len(outbox[c]) : \E j \in 1..Len(outbox[c]) :
            /\ i < j
            /\ outbox[c][i].src # outbox[c][j].src
            /\ PlacesOf(d, outbox[c][i]) # {}
            /\ PlacesOf(d, outbox[c][j]) # {}

-----------------------------------------------------------------------------
(* What a READY or LEVEL line changes. *)

\* Handler h applies the READY or LEVEL line it is processing.
AppliesValue(h) == pc[h] \in {"ready_set", "level_set"} /\ pc'[h] # pc[h]

\* C35: applying a READY or LEVEL line leaves every entry of another connection
\* as it was, and the sender's entry keeps its socket and its name; no entry is
\* added or removed.
C35_OnlyOwnEntryChanges ==
    [][\A h \in Conns : AppliesValue(h) =>
          /\ Len(clients') = Len(clients)
          /\ \A i \in 1..Len(clients) :
                IF clients[i].sock = h
                THEN /\ clients'[i].sock = h
                     /\ clients'[i].name = clients[i].name
                     /\ pc[h] = "ready_set" => clients'[i].level = clients[i].level
                     /\ pc[h] = "level_set" => clients'[i].ready = clients[i].ready
                ELSE clients'[i] = clients[i]]_vars

\* A READY line carrying the name of another connection's entry has been
\* applied and has changed the sender's own flag.
C35_Witness ==
    \E h \in Conns : \E g \in Conns \ {h} :
        /\ pc[h] = "ready_bc"
        /\ ReadyName(h) = PlayerName(g)
        /\ \E i \in 1..Len(clients) : clients[i].sock = g /\ clients[i].name = PlayerName(g)
        /\ \E i \in 1..Len(clients) : clients[i].sock = h /\ clients[i].ready # 0

-----------------------------------------------------------------------------
(* The client's reader and its UI thread. *)

\* The listener of client c takes a step: it reads a line or it ends.
ListenerStep(c) == rpos'[c] # rpos[c] \/ (lpc[c] = "run" /\ lpc'[c] = "done")

\* The decodable lines among the first n the socket of client c received.
DecodableUpTo(c, n) == SelectSeq(SubSeq(outbox[c], 1, n), LAMBDA e : Decodable(e.line))

\* C36: a step of the listener leaves the transcript, the player rows, the
\* status and the ready flag alone and at most appends one event to the queue
\* of the UI thread; the transcript and the rows change only in steps in which
\* the listener does not move; and the lines the UI thread has handled,
\* followed by those still queued, are the lines the listener has read, in
\* the order received.
C36_ReaderOnlyPosts ==
    /\ [](\A c \in Observed : applied[c] \o QueuedLines(c) = DecodableUpTo(c, rpos[c]))
    /\ [][\A c \in Conns : ListenerStep(c) =>
            /\ chat'[c] = chat[c] /\ tree'[c] = tree[c]
            /\ status'[c] = status[c] /\ ready'[c] = ready[c]
            /\ applied'[c] = applied[c]
            /\ uiq'[c] = uiq[c] \/ (Len(uiq'[c]) = Len(uiq[c]) + 1 /\ SubSeq(uiq'[c], 1, Len(uiq[c])) = uiq[c])]_vars

\* The listener has ended and the UI thread has handled two received lines
\* and the disconnect notice.
C36_Witness ==
    \E c \in Observed :
        /\ lpc[c] = "done"
        /\ uiq[c] = <<>>
        /\ Len(applied[c]) >= 2
        /\ <<<<"System">>, <<"Disconnected from lobby">>>> \in Range(chat[c])

-----------------------------------------------------------------------------
(* The local user's own chat messages. *)

\* The CHAT lines client c has written on its socket.
SentChats(c) == Len(SelectSeq(sent[c], LAMBDA l : StartsWith(l, CHATp)))

\* The transcript of client c never shows more of its own messages than it
\* has sent: the echo is the only copy of a message that was sent.
NoDoubleEcho == \A c \in Observed : OwnChats(c) <= SentChats(c)

\* C37: every chat message the user of a connected client sends is shown in
\* that client's transcript, once: the transcript never has more lines under
\* the user's name than messages sent, and it eventually has as many.
C37_OwnChatShownOnce ==
    /\ []NoDoubleEcho
    /\ \A c \in Observed : \A n \in 1..MaxActs :
          (SentChats(c) >= n) ~> (OwnChats(c) >= n)

====
